---- MODULE Spec2Model ----
(***************************************************************************)
(* Model of the interval-workout validator, src/utils/validate_workout.py. *)
(*                                                                         *)
(* The validator is a family of pure functions over a decoded JSON tree.   *)
(* A JSON value is modelled as a pair <<kind, payload>>; the payload of a   *)
(* string is a sequence of one-character strings so that the               *)
(* regular expression and Python's substring test can be computed.  A      *)
(* validator's result is [exc |-> whether the call raised, val |-> what it *)
(* returned]; error messages are the strings the code formats.             *)
(***************************************************************************)
EXTENDS Integers, Sequences, FiniteSets, TLC

VARIABLES pc, arg, path, ret, idx,
          json_files, next_file, all_valid, validating, exit_code

\* the state of the command-line run: the files given, the position of the
\* for loop, the flag, the files announced on stdout, the exit code if any
cli == <<json_files, next_file, all_valid, validating, exit_code>>

vars == <<pc, arg, path, ret, idx, cli>>

(***************************************************************************)
(* Bounds of the model.                                                    *)
(***************************************************************************)
\* longest run of whitespace characters generated inside a zone string
MaxWs == 1
\* integers tried as power zones range over -1 .. MaxZoneInt
MaxZoneInt == 9
\* longest list generated for sequence, intervals, blocks, workBlockDefinitions, slots
MaxItems == 2

(***************************************************************************)
(* Decoded JSON values (what json.load returns).                           *)
(***************************************************************************)
JInt(n) == <<"int", n>>
JBool(b) == <<"bool", b>>
\* a float, kept as its number of tenths (25 is 2.5)
JFloat(t) == <<"float", t>>
JNull == <<"null", 0>>
JStr(cs) == <<"str", cs>>
JList(s) == <<"list", s>>
JMap(f) == <<"map", f>>

\* the kind of a value and what it holds
Kind(x) == x[1]
Val(x) == x[2]

\* the empty dict
NoKeys == [x \in {} |-> JNull]

\* dict d extended (or overwritten) with key |-> val
With(d, key, val) == [x \in DOMAIN d \cup {key} |-> IF x = key THEN val ELSE d[x]]

RECURSIVE Join(_)
\* the Python string made of the characters cs
Join(cs) == IF cs = <<>> THEN "" ELSE Head(cs) \o Join(Tail(cs))

\* type(v).__name__
TypeName(v) ==
    CASE Kind(v) = "int" -> "int"
      [] Kind(v) = "bool" -> "bool"
      [] Kind(v) = "float" -> "float"
      [] Kind(v) = "null" -> "NoneType"
      [] Kind(v) = "str" -> "str"
      [] Kind(v) = "list" -> "list"
      [] Kind(v) = "map" -> "dict"

\* isinstance(v, int): bool is a subclass of int in Python
IsInstanceInt(v) == Kind(v) \in {"int", "bool"}

\* the integer an int or a bool compares as
IntOf(v) == IF Kind(v) = "bool" THEN (IF Val(v) THEN 1 ELSE 0) ELSE Val(v)

\* str(v) for an int or a bool, as an f-string formats it
StrOfInt(v) == IF Kind(v) = "bool" THEN (IF Val(v) THEN "True" ELSE "False") ELSE ToString(Val(v))

(***************************************************************************)
(* validate_power_zone                                                     *)
(***************************************************************************)
\* characters the pattern's \s matches (those of the model's alphabet)
Whitespace == {" ", "\t", "\n", "\r", "\f"}

ZoneDigits == {"1", "2", "3", "4", "5", "6", "7"}

\* positions p such that the optional group (?:[Zz](?:one)?\s*)? can end at p
ZonePrefixEnds(s) ==
    {0} \cup
    {p \in 1..Len(s) :
        /\ s[1] \in {"Z", "z"}
        /\ \/ \A i \in 2..p : s[i] \in Whitespace
           \/ /\ p >= 4
              /\ s[2] = "o" /\ s[3] = "n" /\ s[4] = "e"
              /\ \A i \in 5..p : s[i] \in Whitespace}

\* '$' without re.MULTILINE: the end, or just before a newline that ends the string
DollarAt(s, q) == q = Len(s) \/ (q = Len(s) - 1 /\ s[Len(s)] = "\n")

\* re.match(r'^(?:[Zz](?:one)?\s*)?[1-7][+-]?$', zone) is not None
ZoneRegexMatch(s) ==
    \E p \in ZonePrefixEnds(s) :
        /\ p + 1 <= Len(s)
        /\ s[p + 1] \in ZoneDigits
        /\ \/ DollarAt(s, p + 1)
           \/ /\ p + 2 <= Len(s)
              /\ s[p + 2] \in {"+", "-"}
              /\ DollarAt(s, p + 2)

validate_power_zone(zone) ==
    IF IsInstanceInt(zone)
    THEN IF 1 <= IntOf(zone) /\ IntOf(zone) <= 7
         THEN [valid |-> TRUE, msg |-> ""]
         ELSE [valid |-> FALSE, msg |-> "Power zone must be 1-7, got " \o StrOfInt(zone)]
    ELSE IF Kind(zone) = "str"
    THEN IF ZoneRegexMatch(Val(zone))
         THEN [valid |-> TRUE, msg |-> ""]
         ELSE [valid |-> FALSE, msg |-> "Invalid power zone format: '" \o Join(Val(zone)) \o "'"]
    ELSE [valid |-> FALSE,
          msg |-> "Power zone must be integer or string, got " \o TypeName(zone)]

(***************************************************************************)
(* Python container semantics used by the validators.                      *)
(***************************************************************************)
\* a call that ended in an uncaught exception (TypeError), and one that returned v
Raised == [exc |-> TRUE, val |-> <<>>]
Returned(v) == [exc |-> FALSE, val |-> v]

\* r1 then r2 in program order: an exception in either ends the call
Then(r1, r2) ==
    IF r1.exc \/ r2.exc THEN Raised ELSE Returned(r1.val \o r2.val)

RECURSIVE ThenAll(_)
\* the results rs in program order, their error lists appended (errors.extend)
ThenAll(rs) == IF rs = <<>> THEN Returned(<<>>) ELSE Then(Head(rs), ThenAll(Tail(rs)))

\* <<e>> when cond holds: "if cond: errors.append(e)"
Opt(cond, e) == IF cond THEN <<e>> ELSE <<>>

\* the characters of the string literals the code compares values with
Chars ==
    [id |-> <<"i", "d">>,
     name |-> <<"n", "a", "m", "e">>,
     duration |-> <<"d", "u", "r", "a", "t", "i", "o", "n">>,
     powerZone |-> <<"p", "o", "w", "e", "r", "Z", "o", "n", "e">>,
     powerZoneRange |->
         <<"p", "o", "w", "e", "r", "Z", "o", "n", "e", "R", "a", "n", "g", "e">>,
     cadence |-> <<"c", "a", "d", "e", "n", "c", "e">>,
     alternating |-> <<"a", "l", "t", "e", "r", "n", "a", "t", "i", "n", "g">>,
     notes |-> <<"n", "o", "t", "e", "s">>,
     type |-> <<"t", "y", "p", "e">>,
     repetitions |-> <<"r", "e", "p", "e", "t", "i", "t", "i", "o", "n", "s">>,
     intervals |-> <<"i", "n", "t", "e", "r", "v", "a", "l", "s">>,
     interval |-> <<"i", "n", "t", "e", "r", "v", "a", "l">>,
     block |-> <<"b", "l", "o", "c", "k">>]

\* sub occurs in s as a contiguous run (Python's "sub in s" for two strings)
IsSubstring(sub, s) ==
    \E i \in 0..(Len(s) - Len(sub)) : \A j \in 1..Len(sub) : s[i + j] = sub[j]

\* values on which "key in v" does not raise TypeError
Iterable(v) == Kind(v) \in {"map", "str", "list"}

\* "key in v", for an Iterable v: dict key, substring, or list element
Has(v, key) ==
    CASE Kind(v) = "map" -> key \in DOMAIN Val(v)
      [] Kind(v) = "str" -> IsSubstring(Chars[key], Val(v))
      [] Kind(v) = "list" -> \E i \in 1..Len(Val(v)) : Val(v)[i] = JStr(Chars[key])

\* v[key] for a dict v (on a str or a list a string subscript raises TypeError)
Get(v, key) == Val(v)[key]

\* isinstance(c, int) and 40 <= c <= 150
CadenceOk(c) == IsInstanceInt(c) /\ 40 <= IntOf(c) /\ IntOf(c) <= 150

\* isinstance(n, int) and n >= 1
PositiveInt(n) == IsInstanceInt(n) /\ IntOf(n) >= 1

\* errors of one power zone value, reported at prefix
zone_errors(zone, prefix) ==
    Opt(~validate_power_zone(zone).valid, prefix \o ": " \o validate_power_zone(zone).msg)

\* power_zone_range_errors that also wants start not above end
power_zone_range_errors_ordered(pzr, p) ==
    IF Kind(pzr) # "map"
    THEN <<p \o ": powerZoneRange must be an object">>
    ELSE (IF "start" \notin DOMAIN Val(pzr)
          THEN <<p \o ": powerZoneRange missing 'start'">>
          ELSE zone_errors(Val(pzr)["start"], p \o ".powerZoneRange.start"))
         \o
         (IF "end" \notin DOMAIN Val(pzr)
          THEN <<p \o ": powerZoneRange missing 'end'">>
          ELSE zone_errors(Val(pzr)["end"], p \o ".powerZoneRange.end"))
         \o
         Opt(/\ {"start", "end"} \subseteq DOMAIN Val(pzr)
             /\ Kind(Val(pzr)["start"]) = "int"
             /\ Kind(Val(pzr)["end"]) = "int"
             /\ Val(Val(pzr)["start"]) > Val(Val(pzr)["end"]),
             p \o ": powerZoneRange start must not exceed end")

\* the "powerZoneRange" part of a validator, for a present value pzr
power_zone_range_errors(pzr, p) ==
    IF Kind(pzr) # "map"
    THEN <<p \o ": powerZoneRange must be an object">>
    ELSE (IF "start" \notin DOMAIN Val(pzr)
          THEN <<p \o ": powerZoneRange missing 'start'">>
          ELSE zone_errors(Val(pzr)["start"], p \o ".powerZoneRange.start"))
         \o
         (IF "end" \notin DOMAIN Val(pzr)
          THEN <<p \o ": powerZoneRange missing 'end'">>
          ELSE zone_errors(Val(pzr)["end"], p \o ".powerZoneRange.end"))

\* the powerZoneA / powerZoneB checks of an alternating dict alt
alternating_zone_errors(alt, p) ==
    (IF "powerZoneA" \notin DOMAIN Val(alt)
     THEN <<p \o ".alternating: missing 'powerZoneA'">>
     ELSE zone_errors(Val(alt)["powerZoneA"], p \o ".alternating.powerZoneA"))
    \o
    (IF "powerZoneB" \notin DOMAIN Val(alt)
     THEN <<p \o ".alternating: missing 'powerZoneB'">>
     ELSE zone_errors(Val(alt)["powerZoneB"], p \o ".alternating.powerZoneB"))

(***************************************************************************)
(* validate_interval                                                       *)
(***************************************************************************)
\* the "alternating" part of validate_interval: no cadenceA / cadenceB check
interval_alternating_errors(alt, p) ==
    IF Kind(alt) # "map"
    THEN <<p \o ": alternating must be an object">>
    ELSE alternating_zone_errors(alt, p)

\* interval_presence_errors without its "elif both" branch
interval_presence_errors_no_both(interval, p) ==
    IF ~Has(interval, "powerZone") /\ ~Has(interval, "powerZoneRange")
    THEN <<p \o ": Must have either 'powerZone' or 'powerZoneRange'">>
    ELSE <<>>

\* the exactly-one-of check on powerZone / powerZoneRange
interval_presence_errors(interval, p) ==
    IF ~Has(interval, "powerZone") /\ ~Has(interval, "powerZoneRange")
    THEN <<p \o ": Must have either 'powerZone' or 'powerZoneRange'">>
    ELSE IF Has(interval, "powerZone") /\ Has(interval, "powerZoneRange")
    THEN <<p \o ": Cannot have both 'powerZone' and 'powerZoneRange'">>
    ELSE <<>>

\* interval_errors with the alternating check ahead of the duration and cadence
\* checks
interval_errors_alternating_first(interval, p) ==
        Opt(~Has(interval, "id"), p \o ": Missing required field 'id'")
        \o Opt(~Has(interval, "name"), p \o ": Missing required field 'name'")
        \o Opt(~Has(interval, "duration"), p \o ": Missing required field 'duration'")
        \o interval_presence_errors(interval, p)
        \o (IF Has(interval, "powerZone")
            THEN zone_errors(Get(interval, "powerZone"), p)
            ELSE <<>>)
        \o (IF Has(interval, "powerZoneRange")
            THEN power_zone_range_errors(Get(interval, "powerZoneRange"), p)
            ELSE <<>>)
        \o (IF Has(interval, "alternating")
            THEN interval_alternating_errors(Get(interval, "alternating"), p)
            ELSE <<>>)
        \o (IF Has(interval, "duration")
            THEN Opt(~PositiveInt(Get(interval, "duration")),
                     p \o ": duration must be a positive integer")
            ELSE <<>>)
        \o (IF Has(interval, "cadence")
            THEN Opt(~CadenceOk(Get(interval, "cadence")),
                     p \o ": cadence must be an integer between 40 and 150")
            ELSE <<>>)
        \o (IF Has(interval, "notes")
            THEN Opt(Kind(Get(interval, "notes")) # "str", p \o ": notes must be a string")
            ELSE <<>>)

\* the error list validate_interval builds when no access raises
interval_errors(interval, p) ==
        Opt(~Has(interval, "id"), p \o ": Missing required field 'id'")
        \o Opt(~Has(interval, "name"), p \o ": Missing required field 'name'")
        \o Opt(~Has(interval, "duration"), p \o ": Missing required field 'duration'")
        \o interval_presence_errors(interval, p)
        \o (IF Has(interval, "powerZone")
            THEN zone_errors(Get(interval, "powerZone"), p)
            ELSE <<>>)
        \o (IF Has(interval, "powerZoneRange")
            THEN power_zone_range_errors(Get(interval, "powerZoneRange"), p)
            ELSE <<>>)
        \o (IF Has(interval, "duration")
            THEN Opt(~PositiveInt(Get(interval, "duration")),
                     p \o ": duration must be a positive integer")
            ELSE <<>>)
        \o (IF Has(interval, "cadence")
            THEN Opt(~CadenceOk(Get(interval, "cadence")),
                     p \o ": cadence must be an integer between 40 and 150")
            ELSE <<>>)
        \o (IF Has(interval, "alternating")
            THEN interval_alternating_errors(Get(interval, "alternating"), p)
            ELSE <<>>)
        \o (IF Has(interval, "notes")
            THEN Opt(Kind(Get(interval, "notes")) # "str", p \o ": notes must be a string")
            ELSE <<>>)

\* the keys validate_interval subscripts the interval with once "key in interval" holds
IntervalSubscripts ==
    {"powerZone", "powerZoneRange", "duration", "cadence", "alternating", "notes"}

validate_interval(interval, p) ==
    IF ~Iterable(interval)
    THEN Raised
    ELSE IF Kind(interval) # "map" /\ \E key \in IntervalSubscripts : Has(interval, key)
    THEN Raised
    ELSE Returned(interval_errors(interval, p))

(***************************************************************************)
(* str() and repr() of a decoded value, as the f-strings format it.        *)
(***************************************************************************)
\* repr of one character inside a quoted string
ReprChar(c) ==
    CASE c = "\n" -> "\\n"
      [] c = "\t" -> "\\t"
      [] c = "\r" -> "\\r"
      [] c = "\\" -> "\\\\"
      [] OTHER -> c

RECURSIVE JoinWith(_, _)
\* sep.join(parts)
JoinWith(parts, sep) ==
    IF parts = <<>> THEN ""
    ELSE IF Len(parts) = 1 THEN parts[1]
    ELSE parts[1] \o sep \o JoinWith(Tail(parts), sep)

\* repr of a float kept in tenths
FloatRepr(t) ==
    IF t < 0
    THEN "-" \o ToString((0 - t) \div 10) \o "." \o ToString((0 - t) % 10)
    ELSE ToString(t \div 10) \o "." \o ToString(t % 10)

\* the keys of dict d in one order (a dict of the model keeps no insertion order:
\* exact for dicts of at most one key, the only ones the inputs have formatted)
KeyOrder(d) ==
    CHOOSE s \in [1..Cardinality(DOMAIN d) -> DOMAIN d] :
        \A i, j \in DOMAIN s : i # j => s[i] # s[j]

RECURSIVE PyRepr(_)
PyRepr(v) ==
    CASE Kind(v) \in {"int", "bool"} -> StrOfInt(v)
      [] Kind(v) = "null" -> "None"
      [] Kind(v) = "float" -> FloatRepr(Val(v))
      [] Kind(v) = "str" ->
            "'" \o Join([i \in 1..Len(Val(v)) |-> ReprChar(Val(v)[i])]) \o "'"
      [] Kind(v) = "list" ->
            "[" \o JoinWith([i \in 1..Len(Val(v)) |-> PyRepr(Val(v)[i])], ", ") \o "]"
      [] Kind(v) = "map" ->
            "{" \o JoinWith([i \in 1..Cardinality(DOMAIN Val(v)) |->
                               "'" \o KeyOrder(Val(v))[i] \o "': "
                                   \o PyRepr(Val(v)[KeyOrder(Val(v))[i]])], ", ") \o "}"

\* str(v): "{v}" in an f-string
PyStr(v) == IF Kind(v) = "str" THEN Join(Val(v)) ELSE PyRepr(v)

(***************************************************************************)
(* validate_block and validate_sequence_item                               *)
(***************************************************************************)
\* "[idx]" for the 1-based position i of a list (enumerate counts from 0)
Index(i) == "[" \o ToString(i - 1) \o "]"

\* the "intervals" part of validate_block, for a dict block
block_intervals(block, p) ==
    IF ~Has(block, "intervals")
    THEN Returned(<<>>)
    ELSE IF Kind(Get(block, "intervals")) # "list"
    THEN Returned(<<p \o ": intervals must be an array">>)
    ELSE IF Len(Val(Get(block, "intervals"))) = 0
    THEN Returned(<<p \o ": intervals array cannot be empty">>)
    ELSE ThenAll([i \in 1..Len(Val(Get(block, "intervals"))) |->
                    validate_interval(Val(Get(block, "intervals"))[i],
                                      p \o ".intervals" \o Index(i))])

validate_block(block, p) ==
    IF ~Iterable(block)
    THEN Raised
    ELSE IF Kind(block) # "map" /\ (Has(block, "repetitions") \/ Has(block, "intervals"))
    THEN Raised
    ELSE Then(Returned(
                Opt(~Has(block, "id"), p \o ": Missing required field 'id'")
                \o Opt(~Has(block, "name"), p \o ": Missing required field 'name'")
                \o Opt(~Has(block, "repetitions"),
                       p \o ": Missing required field 'repetitions'")
                \o Opt(~Has(block, "intervals"),
                       p \o ": Missing required field 'intervals'")
                \o (IF Has(block, "repetitions")
                    THEN Opt(~PositiveInt(Get(block, "repetitions")),
                             p \o ": repetitions must be a positive integer")
                    ELSE <<>>)),
              block_intervals(block, p))

\* validate_sequence_item that reports the missing 'type' and goes on to check
\* the item as an interval
validate_sequence_item_goes_on(item, index) ==
    IF ~Iterable(item)
    THEN Raised
    ELSE IF ~Has(item, "type")
    THEN Then(Returned(<<"sequence[" \o ToString(index) \o "]: Missing 'type' field">>),
              validate_interval(item, "sequence[" \o ToString(index) \o "]"))
    ELSE IF Kind(item) # "map"
    THEN Raised
    ELSE IF Get(item, "type") = JStr(Chars.interval)
    THEN validate_interval(item, "sequence[" \o ToString(index) \o "]")
    ELSE IF Get(item, "type") = JStr(Chars.block)
    THEN validate_block(item, "sequence[" \o ToString(index) \o "]")
    ELSE Returned(<<"sequence[" \o ToString(index)
                     \o "]: type must be 'interval' or 'block', got '"
                     \o PyStr(Get(item, "type")) \o "'">>)

\* index is the item's Python index idx (from 0)
validate_sequence_item(item, index) ==
    IF ~Iterable(item)
    THEN Raised
    ELSE IF ~Has(item, "type")
    THEN Returned(<<"sequence[" \o ToString(index) \o "]: Missing 'type' field">>)
    ELSE IF Kind(item) # "map"
    THEN Raised
    ELSE IF Get(item, "type") = JStr(Chars.interval)
    THEN validate_interval(item, "sequence[" \o ToString(index) \o "]")
    ELSE IF Get(item, "type") = JStr(Chars.block)
    THEN validate_block(item, "sequence[" \o ToString(index) \o "]")
    ELSE Returned(<<"sequence[" \o ToString(index)
                     \o "]: type must be 'interval' or 'block', got '"
                     \o PyStr(Get(item, "type")) \o "'">>)

(***************************************************************************)
(* Melodic Roulette: work block definitions, slots, the workout.           *)
(***************************************************************************)
S_work == <<"w", "o", "r", "k">>
S_recovery == <<"r", "e", "c", "o", "v", "e", "r", "y">>
S_melodic_roulette ==
    <<"m", "e", "l", "o", "d", "i", "c", "-", "r", "o", "u", "l", "e", "t", "t", "e">>

\* valid_ranges
ValidRanges == {<<"s", "h", "o", "r", "t">>, <<"m", "e", "d", "i", "u", "m">>,
                <<"l", "o", "n", "g">>}

\* valid_themes
ValidThemes ==
    {<<"d", "e", "f", "a", "u", "l", "t">>,
     <<"h", "a", "l", "l", "o", "w", "e", "e", "n">>,
     <<"c", "h", "r", "i", "s", "t", "m", "a", "s">>,
     <<"w", "i", "n", "t", "r", "y">>,
     <<"v", "a", "l", "e", "n", "t", "i", "n", "e", "s">>,
     <<"h", "o", "l", "y", "h", "i", "l", "l">>,
     <<"c", "r", "i", "t", "e", "r", "i", "u", "m">>,
     <<"c", "u", "s", "t", "o", "m">>}

\* isinstance(v, str) and len(v) > 0
NonEmptyStr(v) == Kind(v) = "str" /\ Len(Val(v)) > 0

\* the "alternating" part of validate_work_block_definition
definition_alternating_errors(alt, p) ==
    IF Kind(alt) # "map"
    THEN <<p \o ": alternating must be an object">>
    ELSE alternating_zone_errors(alt, p)
         \o (IF "cadenceA" \in DOMAIN Val(alt)
             THEN Opt(~CadenceOk(Val(alt)["cadenceA"]),
                      p \o ".alternating.cadenceA: must be an integer between 40 and 150")
             ELSE <<>>)
         \o (IF "cadenceB" \in DOMAIN Val(alt)
             THEN Opt(~CadenceOk(Val(alt)["cadenceB"]),
                      p \o ".alternating.cadenceB: must be an integer between 40 and 150")
             ELSE <<>>)

\* exclusive_count that forgets has_alternating (the interval's two-key rule)
exclusive_count_two_keys(definition) ==
    Cardinality({"powerZone", "powerZoneRange"} \cap DOMAIN Val(definition))

\* sum([has_power_zone, has_power_zone_range, has_alternating])
exclusive_count(definition) ==
    Cardinality({"powerZone", "powerZoneRange", "alternating"} \cap DOMAIN Val(definition))

\* the exactly-one-of check of validate_work_block_definition
definition_exclusive_errors(definition, p) ==
    IF exclusive_count(definition) = 0
    THEN <<p \o ": Must have either 'powerZone', 'powerZoneRange', or 'alternating'">>
    ELSE IF exclusive_count(definition) > 1
    THEN <<p \o ": Cannot have more than one of 'powerZone', 'powerZoneRange', or 'alternating'">>
    ELSE <<>>

\* returns the error list (no access of this function can raise)
validate_work_block_definition(definition, p) ==
    IF Kind(definition) # "map"
    THEN <<p \o ": Work block definition must be an object">>
    ELSE (IF "name" \notin DOMAIN Val(definition)
          THEN <<p \o ": Missing required field 'name'">>
          ELSE Opt(~NonEmptyStr(Val(definition)["name"]),
                   p \o ": name must be a non-empty string"))
         \o definition_exclusive_errors(definition, p)
         \o (IF "powerZone" \in DOMAIN Val(definition)
             THEN zone_errors(Val(definition)["powerZone"], p \o ".powerZone")
             ELSE <<>>)
         \o (IF "powerZoneRange" \in DOMAIN Val(definition)
             THEN power_zone_range_errors(Val(definition)["powerZoneRange"], p)
             ELSE <<>>)
         \o (IF "alternating" \in DOMAIN Val(definition)
             THEN definition_alternating_errors(Val(definition)["alternating"], p)
             ELSE <<>>)
         \o (IF "cadence" \in DOMAIN Val(definition)
             THEN Opt(~CadenceOk(Val(definition)["cadence"]),
                      p \o ": cadence must be an integer between 40 and 150")
             ELSE <<>>)

\* IsWorkSlot reading the sequence items' key "type" in place of "intervalType"
IsWorkSlot_wrong_key(slot) ==
    "type" \in DOMAIN Val(slot) /\ Val(slot)["type"] = JStr(S_work)

\* slot.get("intervalType") == "work"
IsWorkSlot(slot) ==
    "intervalType" \in DOMAIN Val(slot) /\ Val(slot)["intervalType"] = JStr(S_work)

\* returns the error list (no access of this function can raise)
validate_roulette_slot(slot, p) ==
    IF Kind(slot) # "map"
    THEN <<p \o ": Slot must be an object">>
    ELSE Opt("id" \notin DOMAIN Val(slot), p \o ": Missing required field 'id'")
         \o (IF "intervalType" \notin DOMAIN Val(slot)
             THEN <<p \o ": Missing required field 'intervalType'">>
             ELSE Opt(Val(slot)["intervalType"] \notin {JStr(S_work), JStr(S_recovery)},
                      p \o ": intervalType must be 'work' or 'recovery', got '"
                        \o PyStr(Val(slot)["intervalType"]) \o "'"))
         \o (IF "playlistId" \notin DOMAIN Val(slot)
             THEN <<p \o ": Missing required field 'playlistId'">>
             ELSE Opt(~NonEmptyStr(Val(slot)["playlistId"]),
                      p \o ": playlistId must be a non-empty string"))
         \o (IF "durationRange" \in DOMAIN Val(slot)
             THEN Opt(Val(slot)["durationRange"] \notin {JStr(r) : r \in ValidRanges},
                      p \o ": durationRange must be one of ['short', 'medium', 'long'], got '"
                        \o PyStr(Val(slot)["durationRange"]) \o "'")
             ELSE <<>>)
         \o Opt("powerZone" \in DOMAIN Val(slot) /\ "powerZoneRange" \in DOMAIN Val(slot),
                p \o ": Cannot have both 'powerZone' and 'powerZoneRange'")
         \o (IF "powerZone" \in DOMAIN Val(slot)
             THEN Opt(IsWorkSlot(slot),
                      p \o ": powerZone not allowed for work intervals (use workBlockDefinitions instead)")
                  \o zone_errors(Val(slot)["powerZone"], p \o ".powerZone")
             ELSE <<>>)
         \o (IF "powerZoneRange" \in DOMAIN Val(slot)
             THEN Opt(IsWorkSlot(slot),
                      p \o ": powerZoneRange not allowed for work intervals (use workBlockDefinitions instead)")
                  \o power_zone_range_errors(Val(slot)["powerZoneRange"], p)
             ELSE <<>>)
         \o (IF "cadence" \in DOMAIN Val(slot)
             THEN Opt(IsWorkSlot(slot),
                      p \o ": cadence not allowed for work intervals (use workBlockDefinitions instead)")
                  \o Opt(~CadenceOk(Val(slot)["cadence"]),
                         p \o ": cadence must be an integer between 40 and 150")
             ELSE <<>>)

\* concatenation of a sequence of error lists
RECURSIVE Flatten(_)
Flatten(ls) == IF ls = <<>> THEN <<>> ELSE Head(ls) \o Flatten(Tail(ls))

\* workout.get("mode") == "melodic-roulette"
IsMelodicRoulette(workout) ==
    "mode" \in DOMAIN Val(workout) /\ Val(workout)["mode"] = JStr(S_melodic_roulette)

\* the "theme" check, shared by validate_melodic_roulette and validate_workout
theme_errors(workout) ==
    IF "theme" \in DOMAIN Val(workout)
    THEN Opt(Val(workout)["theme"] \notin {JStr(t) : t \in ValidThemes},
             "theme must be one of ['default', 'halloween', 'christmas', 'wintry', "
               \o "'valentines', 'holyhill', 'criterium', 'custom'], got '"
               \o PyStr(Val(workout)["theme"]) \o "'")
    ELSE <<>>

\* the "workBlockDefinitions" part of validate_melodic_roulette
definitions_errors(workout) ==
    IF "workBlockDefinitions" \notin DOMAIN Val(workout)
    THEN <<"Missing required field: 'workBlockDefinitions'">>
    ELSE IF Kind(Val(workout)["workBlockDefinitions"]) # "list"
    THEN <<"'workBlockDefinitions' must be an array">>
    ELSE IF Len(Val(Val(workout)["workBlockDefinitions"])) = 0
    THEN <<"'workBlockDefinitions' must have at least one definition">>
    ELSE Flatten([i \in 1..Len(Val(Val(workout)["workBlockDefinitions"])) |->
                    validate_work_block_definition(
                        Val(Val(workout)["workBlockDefinitions"])[i],
                        "workBlockDefinitions" \o Index(i))])

\* the "slots" part of validate_melodic_roulette
slots_errors(workout) ==
    IF "slots" \notin DOMAIN Val(workout)
    THEN <<"Missing required field: 'slots'">>
    ELSE IF Kind(Val(workout)["slots"]) # "list"
    THEN <<"'slots' must be an array">>
    ELSE IF Len(Val(Val(workout)["slots"])) = 0
    THEN <<"'slots' must have at least one slot">>
    ELSE Flatten([i \in 1..Len(Val(Val(workout)["slots"])) |->
                    validate_roulette_slot(Val(Val(workout)["slots"])[i], "slots" \o Index(i))])

\* validate_melodic_roulette returning as soon as workBlockDefinitions is unusable
validate_melodic_roulette_early_return(workout) ==
    IF \/ "workBlockDefinitions" \notin DOMAIN Val(workout)
       \/ Kind(Val(workout)["workBlockDefinitions"]) # "list"
       \/ Len(Val(Val(workout)["workBlockDefinitions"])) = 0
    THEN Opt(~IsMelodicRoulette(workout), "mode must be 'melodic-roulette'")
         \o definitions_errors(workout)
    ELSE Opt(~IsMelodicRoulette(workout), "mode must be 'melodic-roulette'")
         \o definitions_errors(workout)
         \o slots_errors(workout)
         \o theme_errors(workout)

\* returns the error list, for a dict workout (no access of this function can raise)
validate_melodic_roulette(workout) ==
    Opt(~IsMelodicRoulette(workout), "mode must be 'melodic-roulette'")
    \o definitions_errors(workout)
    \o slots_errors(workout)
    \o theme_errors(workout)

(***************************************************************************)
(* validate_workout                                                        *)
(***************************************************************************)
\* the required-field loop at the top of validate_workout
required_errors(workout) ==
    Opt("id" \notin DOMAIN Val(workout), "Missing required field: 'id'")
    \o Opt("name" \notin DOMAIN Val(workout), "Missing required field: 'name'")

\* the "sequence" part of the standard branch
sequence_part(workout) ==
    IF "sequence" \notin DOMAIN Val(workout)
    THEN Returned(<<>>)
    ELSE IF Kind(Val(workout)["sequence"]) # "list"
    THEN Returned(<<"'sequence' must be an array">>)
    ELSE ThenAll([i \in 1..Len(Val(Val(workout)["sequence"])) |->
                    validate_sequence_item(Val(Val(workout)["sequence"])[i], i - 1)])

\* the legacy "intervals" part of the standard branch
intervals_part(workout) ==
    IF "intervals" \notin DOMAIN Val(workout)
    THEN Returned(<<>>)
    ELSE IF Kind(Val(workout)["intervals"]) # "list"
    THEN Returned(<<"'intervals' must be an array">>)
    ELSE ThenAll([i \in 1..Len(Val(Val(workout)["intervals"])) |->
                    validate_interval(Val(Val(workout)["intervals"])[i], "intervals" \o Index(i))])

\* the legacy "blocks" part of the standard branch
blocks_part(workout) ==
    IF "blocks" \notin DOMAIN Val(workout)
    THEN Returned(<<>>)
    ELSE IF Kind(Val(workout)["blocks"]) # "list"
    THEN Returned(<<"'blocks' must be an array">>)
    ELSE ThenAll([i \in 1..Len(Val(Val(workout)["blocks"])) |->
                    validate_block(Val(Val(workout)["blocks"])[i], "blocks" \o Index(i))])

\* standard_errors that gives up once neither 'intervals' nor 'sequence' is there
standard_errors_stop_on_missing(workout) ==
    IF "intervals" \notin DOMAIN Val(workout) /\ "sequence" \notin DOMAIN Val(workout)
    THEN Returned(required_errors(workout)
                  \o <<"Workout must have either 'intervals' or 'sequence' array">>)
    ELSE ThenAll(<<
            Returned(required_errors(workout)),
            sequence_part(workout),
            intervals_part(workout),
            blocks_part(workout),
            Returned(IF "totalDuration" \in DOMAIN Val(workout)
                     THEN Opt(~PositiveInt(Val(workout)["totalDuration"]),
                              "totalDuration must be a positive integer")
                     ELSE <<>>),
            Returned(theme_errors(workout)) >>)

\* the error list of the standard branch, or the exception that ends it
standard_errors(workout) ==
    ThenAll(<<
        Returned(required_errors(workout)),
        Returned(Opt("intervals" \notin DOMAIN Val(workout) /\ "sequence" \notin DOMAIN Val(workout),
                     "Workout must have either 'intervals' or 'sequence' array")),
        sequence_part(workout),
        intervals_part(workout),
        blocks_part(workout),
        Returned(IF "totalDuration" \in DOMAIN Val(workout)
                 THEN Opt(~PositiveInt(Val(workout)["totalDuration"]),
                          "totalDuration must be a positive integer")
                 ELSE <<>>),
        Returned(theme_errors(workout)) >>)

\* the error list of the melodic-roulette branch
melodic_errors(workout) ==
    Returned(required_errors(workout) \o validate_melodic_roulette(workout))

\* ReturnPair that reports success whatever the error list holds
ReturnPair_always_valid(r) ==
    IF r.exc THEN Raised
    ELSE Returned([isValid |-> TRUE, errors |-> r.val])

\* "return len(errors) == 0, errors"
ReturnPair(r) ==
    IF r.exc THEN Raised
    ELSE Returned([isValid |-> Len(r.val) = 0, errors |-> r.val])

\* validate_workout whose melodic-roulette branch does not return: the
\* standard-mode checks run as well
validate_workout_no_return(workout) ==
    IF IsMelodicRoulette(workout)
    THEN ReturnPair(Then(Returned(required_errors(workout)
                                  \o validate_melodic_roulette(workout)),
                         ThenAll(<<
                            Returned(Opt("intervals" \notin DOMAIN Val(workout)
                                           /\ "sequence" \notin DOMAIN Val(workout),
                                         "Workout must have either 'intervals' or 'sequence' array")),
                            sequence_part(workout),
                            intervals_part(workout),
                            blocks_part(workout) >>)))
    ELSE ReturnPair(standard_errors(workout))

\* for a dict workout
validate_workout(workout) ==
    IF IsMelodicRoulette(workout)
    THEN ReturnPair(melodic_errors(workout))
    ELSE ReturnPair(standard_errors(workout))

(***************************************************************************)
(* Inputs for validate_power_zone.                                         *)
(***************************************************************************)
RECURSIVE WsRuns(_)
\* every whitespace run of length at most n over space, tab and newline
WsRuns(n) ==
    IF n = 0 THEN {<<>>}
    ELSE WsRuns(n - 1) \cup
         {w \o <<c>> : w \in {u \in WsRuns(n - 1) : Len(u) = n - 1}, c \in {" ", "\t", "\n"}}

ZonePrefixes ==
    {<<>>, <<"z">>, <<"Z">>, <<"z", "o", "n", "e">>, <<"Z", "o", "n", "e">>,
     <<"Z", "O", "N", "E">>, <<"z", "O", "n", "e">>, <<"z", "o", "n">>,
     <<"o", "n", "e">>, <<"f", "o", "o">>, <<"z", "z">>}

ZoneNumbers == {<<>>, <<"0">>, <<"1">>, <<"3">>, <<"7">>, <<"8">>, <<"9">>, <<"3", "3">>}

ZoneSigns == {<<>>, <<"+">>, <<"-">>, <<"+", "+">>, <<"+", "-">>}

ZoneTrailers == {<<>>, <<"\n">>, <<"\n", "\n">>, <<" ">>, <<"x">>}

ZoneStrings ==
    {JStr(p \o w \o d \o g \o t) :
        p \in ZonePrefixes, w \in WsRuns(MaxWs), d \in ZoneNumbers,
        g \in ZoneSigns, t \in ZoneTrailers}

ZoneNonStrings ==
    {JInt(n) : n \in -1..MaxZoneInt}
    \cup {JBool(TRUE), JBool(FALSE), JNull, JFloat(25), JFloat(30),
          JList(<<>>), JList(<<JInt(3)>>), JMap(NoKeys), JMap([start |-> JInt(3)])}

ZoneInputs == ZoneStrings \cup ZoneNonStrings

(***************************************************************************)
(* Specification: validate_power_zone applied to one value.                *)
(***************************************************************************)
NoRet == [exc |-> FALSE, val |-> <<>>]

\* no command-line run is under way
CliIdle ==
    /\ json_files = <<>>
    /\ next_file = 1
    /\ all_valid = TRUE
    /\ validating = <<>>
    /\ exit_code = <<>>

InitZone ==
    /\ pc = "zone"
    /\ arg \in ZoneInputs
    /\ path = ""
    /\ ret = NoRet
    /\ idx = 0
    /\ CliIdle

CallValidatePowerZone ==
    /\ pc = "zone"
    /\ ret' = [exc |-> FALSE, val |-> validate_power_zone(arg)]
    /\ pc' = "zone_done"
    /\ UNCHANGED <<arg, path, idx, cli>>

NextZone == CallValidatePowerZone

SpecZone == InitZone /\ [][NextZone]_vars

(***************************************************************************)
(* Power zone claims, under SpecZone.                                      *)
(***************************************************************************)
\* C4: validate_power_zone accepts a non-string value if and only if it is an
\* integer z with 1 <= z <= 7; booleans, floats, null, maps, lists and
\* out-of-range integers are all reported invalid.
C4_NonStringValidIffIntegerInRange ==
    (pc = "zone_done" /\ Kind(arg) # "str")
        => (ret.val.valid <=> (Kind(arg) = "int" /\ 1 <= Val(arg) /\ Val(arg) <= 7))

\* lower case of a letter of the token's prefix
LowerCase(c) ==
    CASE c = "Z" -> "z"
      [] c = "O" -> "o"
      [] c = "N" -> "n"
      [] c = "E" -> "e"
      [] OTHER -> c

\* the token C5 describes: optional 'z' or 'zone' in any letter case, optional
\* whitespace, one digit 1-7, optional single '+' or '-', and nothing after it
ClaimedZoneToken(s) ==
    \E p \in 0..Len(s) :
        /\ \/ p = 0
           \/ /\ p >= 1
              /\ LowerCase(s[1]) = "z"
              /\ \/ \A i \in 2..p : s[i] \in Whitespace
                 \/ /\ p >= 4
                    /\ LowerCase(s[2]) = "o"
                    /\ LowerCase(s[3]) = "n"
                    /\ LowerCase(s[4]) = "e"
                    /\ \A i \in 5..p : s[i] \in Whitespace
        /\ p + 1 <= Len(s)
        /\ s[p + 1] \in ZoneDigits
        /\ \/ Len(s) = p + 1
           \/ Len(s) = p + 2 /\ s[p + 2] \in {"+", "-"}

\* C5: validate_power_zone accepts a string if and only if the whole string is
\* such a token (case-insensitive prefix, no trailing characters or newline).
C5_StringValidIffWholeToken ==
    (pc = "zone_done" /\ Kind(arg) = "str")
        => (ret.val.valid <=> ClaimedZoneToken(Val(arg)))

(***************************************************************************)
(* Inputs for validate_interval: every combination of the options of each  *)
(* key (Absent leaves the key out), and values that are not dicts.         *)
(***************************************************************************)
Absent == <<"absent", 0>>

\* the dict holding the keys of record f whose option is not Absent
MkMap(f) == JMap([x \in {key \in DOMAIN f : f[key] # Absent} |-> f[x]])

ZoneOptions == {Absent, JInt(3), JInt(8), JStr(<<"Z", "3">>), JNull}

RangeOptions ==
    {Absent, JInt(1), JMap(NoKeys),
     JMap([start |-> JInt(2), end |-> JInt(4)]),
     JMap([start |-> JInt(5), end |-> JInt(2)]),
     JMap([start |-> JStr(<<"Z", "9">>), end |-> JInt(3)])}

AlternatingOptions ==
    {Absent, JStr(<<"x">>), JMap(NoKeys),
     JMap([powerZoneA |-> JInt(2), powerZoneB |-> JInt(5)]),
     JMap([powerZoneA |-> JInt(2), powerZoneB |-> JInt(5), cadenceA |-> JInt(10)]),
     JMap([powerZoneA |-> JInt(9), powerZoneB |-> JStr(<<"Z", "5">>),
           cadenceB |-> JStr(<<"f", "a", "s", "t">>)])}

CadenceOptions == {Absent, JInt(90), JInt(30)}

IntervalMaps ==
    {MkMap(f) : f \in
        [id : {Absent, JStr(<<"i", "1">>)},
         name : {Absent, JStr(<<"W">>)},
         duration : {Absent, JInt(300), JInt(0), JBool(TRUE), JStr(<<"x">>)},
         powerZone : ZoneOptions,
         powerZoneRange : RangeOptions,
         alternating : AlternatingOptions,
         cadence : CadenceOptions,
         notes : {Absent, JStr(<<"n">>), JInt(5)}]}

\* elements a list can hold in place of an interval or a block
NonMaps ==
    {JInt(5), JBool(TRUE), JNull, JFloat(25), JStr(<<"a">>), JStr(<<"k", "i", "d">>),
     JStr(Chars.duration), JList(<<>>), JList(<<JStr(Chars.id)>>),
     JList(<<JStr(Chars.notes)>>)}

IntervalInputs == IntervalMaps \cup NonMaps

(***************************************************************************)
(* Specification: validate_interval applied to one value at one path.      *)
(***************************************************************************)
InitInterval ==
    /\ pc = "interval"
    /\ arg \in IntervalInputs
    /\ path \in {"", "intervals[0]"}
    /\ ret = NoRet
    /\ idx = 0
    /\ CliIdle

CallValidateInterval ==
    /\ pc = "interval"
    /\ ret' = validate_interval(arg, path)
    /\ pc' = "interval_done"
    /\ UNCHANGED <<arg, path, idx, cli>>

NextInterval == CallValidateInterval

SpecInterval == InitInterval /\ [][NextInterval]_vars

(***************************************************************************)
(* Interval claims, under SpecInterval.                                    *)
(***************************************************************************)
\* how many times e occurs in the error list errs
Count(errs, e) == Cardinality({i \in 1..Len(errs) : errs[i] = e})

\* every error of list es is in list errs
AllIn(es, errs) == \A i \in 1..Len(es) : \E j \in 1..Len(errs) : errs[j] = es[i]

MustHaveEither == path \o ": Must have either 'powerZone' or 'powerZoneRange'"
CannotHaveBoth == path \o ": Cannot have both 'powerZone' and 'powerZoneRange'"

\* the call returned for a dict with id, name and an integer duration >= 1
IntervalWithRequired ==
    /\ pc = "interval_done"
    /\ Kind(arg) = "map"
    /\ {"id", "name", "duration"} \subseteq DOMAIN Val(arg)
    /\ Kind(Val(arg)["duration"]) = "int"
    /\ Val(Val(arg)["duration"]) >= 1

\* none of the optional keys alternating, cadence, notes is present
NoOptionalKeys == DOMAIN Val(arg) \cap {"alternating", "cadence", "notes"} = {}

\* a present powerZoneRange is a dict whose start and end pass validate_power_zone
RangeValueValid(pzr) ==
    /\ Kind(pzr) = "map"
    /\ {"start", "end"} \subseteq DOMAIN Val(pzr)
    /\ validate_power_zone(Val(pzr)["start"]).valid
    /\ validate_power_zone(Val(pzr)["end"]).valid

\* C6: for an interval with id, name and a valid duration: neither key gives
\* exactly one 'Must have either' error, both keys give exactly one 'Cannot
\* have both' error (the only error when both values are valid and no optional
\* key is present), exactly one key gives no presence error; a present key is
\* value-validated whatever the presence check said.
C6_ExactlyOneOfZoneOrRange ==
    IntervalWithRequired =>
        LET hasZone == "powerZone" \in DOMAIN Val(arg)
            hasRange == "powerZoneRange" \in DOMAIN Val(arg)
            errs == ret.val
        IN  /\ ~ret.exc
            /\ (~hasZone /\ ~hasRange)
                 => /\ Count(errs, MustHaveEither) = 1
                    /\ Count(errs, CannotHaveBoth) = 0
                    /\ NoOptionalKeys => errs = <<MustHaveEither>>
            /\ (hasZone /\ hasRange)
                 => /\ Count(errs, CannotHaveBoth) = 1
                    /\ Count(errs, MustHaveEither) = 0
                    /\ (/\ NoOptionalKeys
                        /\ validate_power_zone(Val(arg)["powerZone"]).valid
                        /\ RangeValueValid(Val(arg)["powerZoneRange"]))
                         => errs = <<CannotHaveBoth>>
            /\ (hasZone # hasRange)
                 => /\ Count(errs, CannotHaveBoth) = 0
                    /\ Count(errs, MustHaveEither) = 0
            /\ hasZone
                 => (validate_power_zone(Val(arg)["powerZone"]).valid
                       <=> Count(errs, path \o ": "
                                 \o validate_power_zone(Val(arg)["powerZone"]).msg) = 0)
            /\ hasRange
                 => /\ AllIn(power_zone_range_errors(Val(arg)["powerZoneRange"], path), errs)
                    /\ (NoOptionalKeys /\ ~hasZone)
                         => (RangeValueValid(Val(arg)["powerZoneRange"]) <=> errs = <<>>)

\* both keys present with valid values: the one error is 'Cannot have both'
C6_Witness ==
    /\ IntervalWithRequired
    /\ {"powerZone", "powerZoneRange"} \subseteq DOMAIN Val(arg)
    /\ validate_power_zone(Val(arg)["powerZone"]).valid
    /\ RangeValueValid(Val(arg)["powerZoneRange"])
    /\ ret.val = <<CannotHaveBoth>>

\* dict d without key
Without(d, key) == JMap([x \in DOMAIN Val(d) \ {key} |-> Val(d)[x]])

\* C7: wherever an alternating object is validated, a present cadenceA or
\* cadenceB that is not an integer in [40,150] yields an error.  For an
\* interval: the call reports more errors than for the same interval without
\* that cadence key.
C7_IntervalAlternatingCadenceChecked ==
    (/\ pc = "interval_done"
     /\ Kind(arg) = "map"
     /\ "alternating" \in DOMAIN Val(arg)
     /\ Kind(Val(arg)["alternating"]) = "map")
        => \A c \in {"cadenceA", "cadenceB"} \cap DOMAIN Val(Val(arg)["alternating"]) :
              LET alt == Val(arg)["alternating"]
                  cad == Val(alt)[c]
              IN  ~(Kind(cad) = "int" /\ 40 <= Val(cad) /\ Val(cad) <= 150)
                    => Len(ret.val) >
                         Len(validate_interval(
                                JMap(With(Val(arg), "alternating", Without(alt, c))), path).val)

(***************************************************************************)
(* Specification: validate_work_block_definition applied to one value.     *)
(***************************************************************************)
DefinitionMaps ==
    {MkMap(f) : f \in
        [name : {Absent, JStr(<<"S">>), JStr(<<>>), JInt(5)},
         powerZone : ZoneOptions,
         powerZoneRange : RangeOptions,
         alternating : AlternatingOptions,
         cadence : CadenceOptions]}

DefinitionInputs == DefinitionMaps \cup NonMaps

InitDefinition ==
    /\ pc = "definition"
    /\ arg \in DefinitionInputs
    /\ path \in {"", "workBlockDefinitions[0]"}
    /\ ret = NoRet
    /\ idx = 0
    /\ CliIdle

CallValidateWorkBlockDefinition ==
    /\ pc = "definition"
    /\ ret' = Returned(validate_work_block_definition(arg, path))
    /\ pc' = "definition_done"
    /\ UNCHANGED <<arg, path, idx, cli>>

NextDefinition == CallValidateWorkBlockDefinition

SpecDefinition == InitDefinition /\ [][NextDefinition]_vars

(***************************************************************************)
(* Work block definition claims, under SpecDefinition.                     *)
(***************************************************************************)
MustHaveVariant ==
    path \o ": Must have either 'powerZone', 'powerZoneRange', or 'alternating'"
MoreThanOneVariant ==
    path \o ": Cannot have more than one of 'powerZone', 'powerZoneRange', or 'alternating'"

\* the call returned for a dict whose name is a non-empty string
DefinitionWithName ==
    /\ pc = "definition_done"
    /\ Kind(arg) = "map"
    /\ "name" \in DOMAIN Val(arg)
    /\ Kind(Val(arg)["name"]) = "str"
    /\ Len(Val(Val(arg)["name"])) > 0

\* the variant keys the definition has
Variants == {"powerZone", "powerZoneRange", "alternating"} \cap DOMAIN Val(arg)

\* an alternating dict with two valid zones and cadences, if any, in [40,150]
AlternatingValueValid(alt) ==
    /\ Kind(alt) = "map"
    /\ {"powerZoneA", "powerZoneB"} \subseteq DOMAIN Val(alt)
    /\ validate_power_zone(Val(alt)["powerZoneA"]).valid
    /\ validate_power_zone(Val(alt)["powerZoneB"]).valid
    /\ \A c \in {"cadenceA", "cadenceB"} \cap DOMAIN Val(alt) :
          Kind(Val(alt)[c]) = "int" /\ 40 <= Val(Val(alt)[c]) /\ Val(Val(alt)[c]) <= 150

\* the value of variant key var of the definition is valid
VariantValid(var) ==
    CASE var = "powerZone" -> validate_power_zone(Val(arg)[var]).valid
      [] var = "powerZoneRange" -> RangeValueValid(Val(arg)[var])
      [] var = "alternating" -> AlternatingValueValid(Val(arg)[var])

\* the optional top-level cadence is absent or an integer in [40,150]
CadenceFine ==
    "cadence" \in DOMAIN Val(arg)
        => (Kind(Val(arg)["cadence"]) = "int" /\ 40 <= Val(Val(arg)["cadence"])
              /\ Val(Val(arg)["cadence"]) <= 150)

\* C10: with a valid name, no variant gives exactly one 'Must have either'
\* error, two or three variants give exactly one 'Cannot have more than one'
\* error, and exactly one valid variant gives no error at all (these are the
\* only errors when the optional cadence is absent or valid).
C10_ExactlyOneVariant ==
    DefinitionWithName =>
        LET errs == ret.val
            n == Cardinality(Variants)
        IN  /\ n = 0 => /\ Count(errs, MustHaveVariant) = 1
                        /\ Count(errs, MoreThanOneVariant) = 0
                        /\ CadenceFine => errs = <<MustHaveVariant>>
            /\ n >= 2 => /\ Count(errs, MoreThanOneVariant) = 1
                         /\ Count(errs, MustHaveVariant) = 0
                         /\ (CadenceFine
                               /\ \A var \in Variants : VariantValid(var))
                              => errs = <<MoreThanOneVariant>>
            /\ n = 1 => /\ Count(errs, MoreThanOneVariant) = 0
                        /\ Count(errs, MustHaveVariant) = 0
                        /\ (CadenceFine
                              /\ \A var \in Variants : VariantValid(var))
                             => errs = <<>>

\* all three variants present and valid: the one error is 'more than one'
C10_Witness ==
    /\ DefinitionWithName
    /\ Cardinality(Variants) = 3
    /\ \A var \in Variants : VariantValid(var)
    /\ ret.val = <<MoreThanOneVariant>>

(***************************************************************************)
(* Specification: validate_melodic_roulette applied to one workout dict.   *)
(***************************************************************************)
\* the sequences over S of length at most n
ListsOf(S, n) == UNION {[1..m -> S] : m \in 0..n}

\* the options of a key that should hold a list: absent, not a list, or a list
ListOptions(S) == {Absent, JInt(1)} \cup {JList(l) : l \in ListsOf(S, MaxItems)}

GoodDefinition == JMap([name |-> JStr(<<"S">>), powerZone |-> JInt(6)])
\* no variant: one error
BareDefinition == JMap([name |-> JStr(<<"S">>)])

GoodSlot ==
    JMap([id |-> JStr(<<"s", "1">>), intervalType |-> JStr(S_work),
          playlistId |-> JStr(<<"p", "1">>)])
\* a work slot carrying a power zone: one error
WorkSlotWithZone ==
    JMap([id |-> JStr(<<"s", "1">>), intervalType |-> JStr(S_work),
          playlistId |-> JStr(<<"p", "1">>), powerZone |-> JInt(5)])
\* a recovery slot with an invalid zone and no playlist: two errors
BadRecoverySlot ==
    JMap([id |-> JStr(<<"s", "2">>), intervalType |-> JStr(S_recovery),
          powerZone |-> JStr(<<"Z", "9">>)])

DefinitionElements == {GoodDefinition, BareDefinition, JInt(5)}
SlotElements == {GoodSlot, WorkSlotWithZone, BadRecoverySlot}

ThemeOptions == {Absent, JStr(<<"c", "u", "s", "t", "o", "m">>), JStr(<<"x">>)}

RouletteInputs ==
    {MkMap(f) : f \in
        [mode : {Absent, JStr(S_melodic_roulette), JStr(<<"x">>)},
         workBlockDefinitions : ListOptions(DefinitionElements),
         slots : ListOptions(SlotElements),
         theme : ThemeOptions]}

InitRoulette ==
    /\ pc = "roulette"
    /\ arg \in RouletteInputs
    /\ path = ""
    /\ ret = NoRet
    /\ idx = 0
    /\ CliIdle

CallValidateMelodicRoulette ==
    /\ pc = "roulette"
    /\ ret' = Returned(validate_melodic_roulette(arg))
    /\ pc' = "roulette_done"
    /\ UNCHANGED <<arg, path, idx, cli>>

NextRoulette == CallValidateMelodicRoulette

SpecRoulette == InitRoulette /\ [][NextRoulette]_vars

(***************************************************************************)
(* Melodic roulette claims, under SpecRoulette.                            *)
(***************************************************************************)
\* the key is missing, not an array, or an empty array
BadArray(w, key) ==
    \/ key \notin DOMAIN Val(w)
    \/ Kind(Val(w)[key]) # "list"
    \/ Len(Val(Val(w)[key])) = 0

\* the errors that say a required array is missing, not an array, or empty
DefinitionsFieldErrors ==
    {"Missing required field: 'workBlockDefinitions'",
     "'workBlockDefinitions' must be an array",
     "'workBlockDefinitions' must have at least one definition"}
SlotsFieldErrors ==
    {"Missing required field: 'slots'",
     "'slots' must be an array",
     "'slots' must have at least one slot"}

\* the errors of every element of a non-empty array, each validated on its own
EachDefinition(w) ==
    Flatten([i \in 1..Len(Val(Val(w)["workBlockDefinitions"])) |->
               validate_work_block_definition(Val(Val(w)["workBlockDefinitions"])[i],
                                              "workBlockDefinitions" \o Index(i))])
EachSlot(w) ==
    Flatten([i \in 1..Len(Val(Val(w)["slots"])) |->
               validate_roulette_slot(Val(Val(w)["slots"])[i], "slots" \o Index(i))])

\* number of errors of errs that belong to set S
CountIn(errs, S) == Cardinality({i \in 1..Len(errs) : errs[i] \in S})

\* errs has the list part as a contiguous run starting after position at
RunAt(errs, part, at) ==
    /\ at + Len(part) <= Len(errs)
    /\ \A i \in 1..Len(part) : errs[at + i] = part[i]

\* C9: workBlockDefinitions and slots must each be a non-empty array and are
\* checked independently: a bad workBlockDefinitions gives exactly one error
\* for that field and every slot is still validated (and vice versa); a mode
\* mismatch adds one error and stops neither check.
C9_DefinitionsAndSlotsIndependent ==
    pc = "roulette_done" =>
        LET errs == ret.val
            modeErrs == Count(errs, "mode must be 'melodic-roulette'")
            defsLen == IF BadArray(arg, "workBlockDefinitions")
                       THEN 1 ELSE Len(EachDefinition(arg))
        IN  /\ modeErrs = (IF "mode" \in DOMAIN Val(arg)
                              /\ Val(arg)["mode"] = JStr(S_melodic_roulette)
                           THEN 0 ELSE 1)
            /\ CountIn(errs, DefinitionsFieldErrors) =
                 (IF BadArray(arg, "workBlockDefinitions") THEN 1 ELSE 0)
            /\ CountIn(errs, SlotsFieldErrors) =
                 (IF BadArray(arg, "slots") THEN 1 ELSE 0)
            /\ ~BadArray(arg, "workBlockDefinitions")
                 => RunAt(errs, EachDefinition(arg), modeErrs)
            /\ ~BadArray(arg, "slots")
                 => RunAt(errs, EachSlot(arg), modeErrs + defsLen)

\* workBlockDefinitions is missing, the mode is wrong, and the errors of the
\* two slots are all reported
C9_Witness ==
    /\ pc = "roulette_done"
    /\ "workBlockDefinitions" \notin DOMAIN Val(arg)
    /\ "mode" \in DOMAIN Val(arg)
    /\ Val(arg)["mode"] # JStr(S_melodic_roulette)
    /\ ~BadArray(arg, "slots")
    /\ Len(Val(Val(arg)["slots"])) = 2
    /\ Len(EachSlot(arg)) >= 2
    /\ RunAt(ret.val, EachSlot(arg), 2)

(***************************************************************************)
(* Specification: validate_workout applied to one workout dict.            *)
(***************************************************************************)
GoodItem ==
    JMap([type |-> JStr(Chars.interval), id |-> JStr(<<"i", "1">>),
          name |-> JStr(<<"W">>), duration |-> JInt(300), powerZone |-> JInt(2)])
\* a sequence item without 'type': one error
UntypedItem == JMap([id |-> JStr(<<"i", "2">>)])

\* a legacy interval with three errors
BadInterval ==
    JMap([id |-> JStr(<<"i", "3">>), duration |-> JInt(0), powerZone |-> JInt(9)])

\* a block with a bad repetitions count and one bad interval
BadBlock ==
    JMap([id |-> JStr(<<"b", "1">>), name |-> JStr(<<"B">>), repetitions |-> JInt(0),
          intervals |-> JList(<<BadInterval>>)])
\* a block whose intervals list holds a number
BlockOfNumber ==
    JMap([id |-> JStr(<<"b", "2">>), name |-> JStr(<<"B">>), repetitions |-> JInt(2),
          intervals |-> JList(<<JInt(5)>>)])

SequenceElements == {GoodItem, UntypedItem, JNull}
IntervalElements == {BadInterval, JStr(<<"a">>)}
BlockElements == {BadBlock, BlockOfNumber}

StandardWorkouts ==
    {MkMap(f) : f \in
        [id : {Absent, JStr(<<"a">>)},
         name : {Absent, JStr(<<"b">>)},
         sequence : ListOptions(SequenceElements),
         intervals : ListOptions(IntervalElements),
         blocks : ListOptions(BlockElements),
         totalDuration : {Absent, JInt(0)},
         theme : {Absent, JStr(<<"x">>)}]}

MelodicWorkouts ==
    {MkMap(f) : f \in
        [id : {Absent, JStr(<<"a">>)},
         name : {Absent, JStr(<<"b">>)},
         mode : {JStr(S_melodic_roulette)},
         workBlockDefinitions : ListOptions({GoodDefinition, BareDefinition}),
         slots : ListOptions({GoodSlot, WorkSlotWithZone}),
         sequence : {Absent, JInt(1)},
         totalDuration : {Absent, JInt(0)}]}

WorkoutInputs == StandardWorkouts \cup MelodicWorkouts

Init ==
    /\ pc = "workout"
    /\ arg \in WorkoutInputs
    /\ path = ""
    /\ ret = NoRet
    /\ idx = 0
    /\ CliIdle

CallValidateWorkout ==
    /\ pc = "workout"
    /\ ret' = validate_workout(arg)
    /\ pc' = "workout_done"
    /\ UNCHANGED <<arg, path, idx, cli>>

Next == CallValidateWorkout

Spec == Init /\ [][Next]_vars

(***************************************************************************)
(* Workout claims, under Spec.                                             *)
(***************************************************************************)
\* the workout takes the melodic-roulette branch
MelodicMode == "mode" \in DOMAIN Val(arg) /\ Val(arg)["mode"] = JStr(S_melodic_roulette)

\* C1: in both branches validate_workout returns (isValid, errors) with
\* isValid true if and only if errors is the empty sequence.
C1_ValidIffNoErrors ==
    (pc = "workout_done" /\ ~ret.exc)
        => (ret.val.isValid <=> ret.val.errors = <<>>)

\* a melodic-roulette workout that returned with errors and isValid false
C1_Witness ==
    /\ pc = "workout_done"
    /\ ~ret.exc
    /\ MelodicMode
    /\ ret.val.errors # <<>>
    /\ ~ret.val.isValid

\* C2: for every workout dict, whatever its lists hold, validate_workout
\* returns a pair and never raises.
C2_NeverRaises == pc = "workout_done" => ~ret.exc

\* the key is absent or holds a list of dicts
ListOfMapsIfPresent(w, key) ==
    key \in DOMAIN Val(w)
        => /\ Kind(Val(w)[key]) = "list"
           /\ \A i \in 1..Len(Val(Val(w)[key])) : Kind(Val(Val(w)[key])[i]) = "map"

\* the n-th child of list key validated on its own, as a list of errors
ChildErrors(w, key, i) ==
    CASE key = "sequence" -> validate_sequence_item(Val(Val(w)[key])[i], i - 1)
      [] key = "intervals" -> validate_interval(Val(Val(w)[key])[i], "intervals" \o Index(i))
      [] key = "blocks" -> validate_block(Val(Val(w)[key])[i], "blocks" \o Index(i))

\* the errors of all children of list key, each validated on its own, in order
EachChild(w, key) ==
    IF key \in DOMAIN Val(w)
    THEN Flatten([i \in 1..Len(Val(Val(w)[key])) |-> ChildErrors(w, key, i).val])
    ELSE <<>>

\* the workout-level errors that come before the children's errors
LeadingErrors(w) ==
    Opt("id" \notin DOMAIN Val(w), "Missing required field: 'id'")
    \o Opt("name" \notin DOMAIN Val(w), "Missing required field: 'name'")
    \o Opt("intervals" \notin DOMAIN Val(w) /\ "sequence" \notin DOMAIN Val(w),
           "Workout must have either 'intervals' or 'sequence' array")

\* C3: for a standard workout whose sequence, intervals and blocks are lists of
\* dicts, the call returns, and the errors of its children are those of every
\* sequence item, then every legacy interval, then every legacy block, each
\* validated on its own.
C3_ChildErrorsConcatenated ==
    (/\ pc = "workout_done"
     /\ ~MelodicMode
     /\ ListOfMapsIfPresent(arg, "sequence")
     /\ ListOfMapsIfPresent(arg, "intervals")
     /\ ListOfMapsIfPresent(arg, "blocks"))
        => /\ ~ret.exc
           /\ RunAt(ret.val.errors,
                    EachChild(arg, "sequence") \o EachChild(arg, "intervals")
                        \o EachChild(arg, "blocks"),
                    Len(LeadingErrors(arg)))

\* the messages only the standard branch produces at workout level
StandardOnlyErrors ==
    {"Workout must have either 'intervals' or 'sequence' array",
     "'sequence' must be an array", "'intervals' must be an array",
     "'blocks' must be an array", "totalDuration must be a positive integer"}

\* C8 as stated: in melodic-roulette mode the error list equals that of
\* validate_melodic_roulette on the same workout.
C8_ErrorsEqualMelodicValidator ==
    (pc = "workout_done" /\ MelodicMode)
        => (~ret.exc /\ ret.val.errors = validate_melodic_roulette(arg))

\* C8 amended: in melodic-roulette mode the error list is one 'Missing
\* required field' error for each of id and name that is absent, followed by
\* the errors of validate_melodic_roulette; no other standard-mode check
\* contributes an error.
C8_RequiredFieldsThenMelodicValidator ==
    (pc = "workout_done" /\ MelodicMode)
        => /\ ~ret.exc
           /\ ret.val.errors =
                Opt("id" \notin DOMAIN Val(arg), "Missing required field: 'id'")
                \o Opt("name" \notin DOMAIN Val(arg), "Missing required field: 'name'")
                \o validate_melodic_roulette(arg)
           /\ CountIn(ret.val.errors, StandardOnlyErrors) = 0

\* a melodic-roulette workout without id, with a bad sequence and totalDuration
C8_Witness ==
    /\ pc = "workout_done"
    /\ MelodicMode
    /\ "id" \notin DOMAIN Val(arg)
    /\ {"sequence", "totalDuration"} \subseteq DOMAIN Val(arg)
    /\ ret.val.errors # <<>>
    /\ ret.val.errors[1] = "Missing required field: 'id'"

(***************************************************************************)
(* Specification: validate_roulette_slot applied to one value.             *)
(***************************************************************************)
SlotMaps ==
    {MkMap(f) : f \in
        [id : {Absent, JStr(<<"s", "1">>)},
         intervalType : {Absent, JStr(S_work), JStr(S_recovery), JStr(<<"x">>)},
         playlistId : {Absent, JStr(<<"p", "1">>), JStr(<<>>)},
         durationRange : {Absent, JStr(<<"l", "o", "n", "g">>), JStr(<<"x">>)},
         powerZone : ZoneOptions \cup {JStr(<<"Z", "9">>)},
         powerZoneRange : RangeOptions,
         cadence : CadenceOptions]}

SlotInputs == SlotMaps \cup NonMaps

InitSlot ==
    /\ pc = "slot"
    /\ arg \in SlotInputs
    /\ path \in {"", "slots[0]"}
    /\ ret = NoRet
    /\ idx = 0
    /\ CliIdle

CallValidateRouletteSlot ==
    /\ pc = "slot"
    /\ ret' = Returned(validate_roulette_slot(arg, path))
    /\ pc' = "slot_done"
    /\ UNCHANGED <<arg, path, idx, cli>>

NextSlot == CallValidateRouletteSlot

SpecSlot == InitSlot /\ [][NextSlot]_vars

(***************************************************************************)
(* Roulette slot claims, under SpecSlot.                                   *)
(***************************************************************************)
\* the keys a work slot must not carry
WorkForbidden == {"powerZone", "powerZoneRange", "cadence"}

\* the error that says key is not allowed on a work slot
NotAllowed(key) ==
    path \o ": " \o key \o " not allowed for work intervals (use workBlockDefinitions instead)"

\* the call returned for a dict slot whose intervalType is the string t
SlotOfType(t) ==
    /\ pc = "slot_done"
    /\ Kind(arg) = "map"
    /\ "intervalType" \in DOMAIN Val(arg)
    /\ Val(arg)["intervalType"] = JStr(t)

\* the value of forbidden key key passes its value validation
SlotValueValid(key) ==
    CASE key = "powerZone" -> validate_power_zone(Val(arg)[key]).valid
      [] key = "powerZoneRange" -> RangeValueValid(Val(arg)[key])
      [] key = "cadence" ->
            /\ Kind(Val(arg)[key]) = "int"
            /\ 40 <= Val(Val(arg)[key]) /\ Val(Val(arg)[key]) <= 150

\* the value-validation errors of forbidden key key
SlotValueErrors(key) ==
    CASE key = "powerZone" -> zone_errors(Val(arg)[key], path \o ".powerZone")
      [] key = "powerZoneRange" -> power_zone_range_errors(Val(arg)[key], path)
      [] key = "cadence" ->
            IF SlotValueValid(key) THEN <<>>
            ELSE <<path \o ": cadence must be an integer between 40 and 150">>

\* nothing but the three optional values can be wrong with the slot: id and a
\* non-empty playlistId are there, durationRange is absent or known, and
\* powerZone and powerZoneRange are not both present
SlotOtherwiseFine ==
    /\ {"id", "playlistId"} \subseteq DOMAIN Val(arg)
    /\ Kind(Val(arg)["playlistId"]) = "str"
    /\ Len(Val(Val(arg)["playlistId"])) > 0
    /\ "durationRange" \in DOMAIN Val(arg)
         => Val(arg)["durationRange"] \in {JStr(r) : r \in ValidRanges}
    /\ ~({"powerZone", "powerZoneRange"} \subseteq DOMAIN Val(arg))

\* C11: on a work slot each of powerZone, powerZoneRange, cadence that is
\* present gives its own 'not allowed for work intervals' error besides the
\* value-validation errors of that key, so a work slot carrying any of them is
\* never valid; on a recovery slot no such error is emitted, and a slot with
\* nothing else wrong is valid exactly when the present values are valid.
C11_WorkSlotForbidsZoneRangeCadence ==
    /\ SlotOfType(S_work) =>
          /\ \A key \in WorkForbidden :
                Count(ret.val, NotAllowed(key)) =
                    (IF key \in DOMAIN Val(arg) THEN 1 ELSE 0)
          /\ \A key \in WorkForbidden \cap DOMAIN Val(arg) :
                AllIn(SlotValueErrors(key), ret.val)
          /\ WorkForbidden \cap DOMAIN Val(arg) # {} => ret.val # <<>>
    /\ SlotOfType(S_recovery) =>
          /\ \A key \in WorkForbidden : Count(ret.val, NotAllowed(key)) = 0
          /\ \A key \in WorkForbidden \cap DOMAIN Val(arg) :
                AllIn(SlotValueErrors(key), ret.val)
          /\ SlotOtherwiseFine =>
                (ret.val = <<>>
                   <=> \A key \in WorkForbidden \cap DOMAIN Val(arg) : SlotValueValid(key))

\* a work slot with a valid powerZone and a valid cadence: invalid only because
\* both are forbidden
C11_Witness ==
    /\ SlotOfType(S_work)
    /\ SlotOtherwiseFine
    /\ WorkForbidden \cap DOMAIN Val(arg) = {"powerZone", "cadence"}
    /\ SlotValueValid("powerZone")
    /\ SlotValueValid("cadence")
    /\ ret.val = <<NotAllowed("powerZone"), NotAllowed("cadence")>>

(***************************************************************************)
(* Specification: validate_block applied to one value at one path.         *)
(***************************************************************************)
\* a legacy interval without errors
GoodInterval ==
    JMap([id |-> JStr(<<"i", "1">>), name |-> JStr(<<"W">>), duration |-> JInt(300),
          powerZone |-> JInt(2)])

BlockIntervalElements == {GoodInterval, BadInterval, JInt(5)}

BlockMaps ==
    {MkMap(f) : f \in
        [id : {Absent, JStr(<<"b", "1">>)},
         name : {Absent, JStr(<<"B">>)},
         repetitions : {Absent, JInt(0), JInt(2), JBool(TRUE), JBool(FALSE),
                        JStr(<<"2">>), JFloat(20), JNull},
         intervals : ListOptions(BlockIntervalElements)]}

BlockInputs == BlockMaps \cup NonMaps

InitBlock ==
    /\ pc = "block"
    /\ arg \in BlockInputs
    /\ path \in {"blocks[0]", "sequence[1]"}
    /\ ret = NoRet
    /\ idx = 0
    /\ CliIdle

CallValidateBlock ==
    /\ pc = "block"
    /\ ret' = validate_block(arg, path)
    /\ pc' = "block_done"
    /\ UNCHANGED <<arg, path, idx, cli>>

NextBlock == CallValidateBlock

SpecBlock == InitBlock /\ [][NextBlock]_vars

(***************************************************************************)
(* Block claims, under SpecBlock.                                          *)
(***************************************************************************)
\* the call was made on a dict block
BlockCalled == pc = "block_done" /\ Kind(arg) = "map"

RepetitionsError == path \o ": repetitions must be a positive integer"
IntervalsEmpty == path \o ": intervals array cannot be empty"

\* repetitions is present and is not a JSON integer >= 1
RepetitionsWrong ==
    /\ "repetitions" \in DOMAIN Val(arg)
    /\ ~(Kind(Val(arg)["repetitions"]) = "int" /\ Val(Val(arg)["repetitions"]) >= 1)

\* the block's intervals key holds a non-empty list
HasIntervalList ==
    /\ "intervals" \in DOMAIN Val(arg)
    /\ Kind(Val(arg)["intervals"]) = "list"
    /\ Len(Val(Val(arg)["intervals"])) > 0

\* the path validate_block gives to its i-th interval (i from 1)
NestedPath(i) == path \o ".intervals" \o Index(i)

\* validate_interval on the i-th interval, at path p
Nested(i, p) == validate_interval(Val(Val(arg)["intervals"])[i], p)

\* the block-level errors that come before the nested ones
BlockLeading ==
    Opt("id" \notin DOMAIN Val(arg), path \o ": Missing required field 'id'")
    \o Opt("name" \notin DOMAIN Val(arg), path \o ": Missing required field 'name'")
    \o Opt("repetitions" \notin DOMAIN Val(arg),
           path \o ": Missing required field 'repetitions'")
    \o Opt("repetitions" \in DOMAIN Val(arg)
             /\ Count(ret.val, RepetitionsError) > 0, RepetitionsError)

\* the repetitions part of C12
C12_Repetitions ==
    (BlockCalled /\ RepetitionsWrong) => (~ret.exc /\ Count(ret.val, RepetitionsError) = 1)

\* the empty-list part of C12
C12_EmptyIntervals ==
    (BlockCalled /\ "intervals" \in DOMAIN Val(arg) /\ Val(arg)["intervals"] = JList(<<>>))
        => (~ret.exc /\ Count(ret.val, IntervalsEmpty) = 1)

\* the nested part of C12: after the block's own errors come the errors of
\* every interval in order, each the error of that interval alone with the
\* full path in front
C12_Nested ==
    (BlockCalled /\ HasIntervalList) =>
        /\ ~ret.exc
        /\ \A i \in 1..Len(Val(Val(arg)["intervals"])) :
              /\ ~Nested(i, "").exc
              /\ Nested(i, NestedPath(i)).val =
                    [k \in 1..Len(Nested(i, "").val) |->
                        NestedPath(i) \o Nested(i, "").val[k]]
        /\ ret.val = BlockLeading
                       \o Flatten([i \in 1..Len(Val(Val(arg)["intervals"])) |->
                                      Nested(i, NestedPath(i)).val])

\* C12: validate_block reports an error on repetitions whenever it is present
\* and not an integer >= 1, reports 'intervals array cannot be empty' for an
\* empty list, and otherwise validates every element of intervals with
\* validate_interval at path '<path>.intervals[<index>]', every nested error
\* carrying that prefix.
C12_BlockRepetitionsAndIntervals ==
    /\ C12_Repetitions
    /\ C12_EmptyIntervals
    /\ C12_Nested

(***************************************************************************)
(* Specification: validate_workout on standard workouts that mix the new   *)
(* and the legacy keys.                                                    *)
(***************************************************************************)
\* a legacy block without errors
GoodBlock ==
    JMap([id |-> JStr(<<"b", "0">>), name |-> JStr(<<"B">>), repetitions |-> JInt(2),
          intervals |-> JList(<<GoodInterval>>)])

MixedWorkouts ==
    {MkMap(f) : f \in
        [id : {Absent, JStr(<<"a">>)},
         name : {JStr(<<"b">>)},
         sequence : ListOptions({GoodItem, UntypedItem}),
         intervals : ListOptions({GoodInterval, BadInterval}),
         blocks : ListOptions({GoodBlock, BadBlock, BlockOfNumber}),
         totalDuration : {Absent, JInt(0)},
         theme : {Absent, JStr(<<"x">>)}]}

InitMixed ==
    /\ pc = "workout"
    /\ arg \in MixedWorkouts
    /\ path = ""
    /\ ret = NoRet
    /\ idx = 0
    /\ CliIdle

SpecMixed == InitMixed /\ [][Next]_vars

(***************************************************************************)
(* Claims on the sequence-or-intervals requirement, under SpecMixed.       *)
(***************************************************************************)
MustHaveIntervalsOrSequence == "Workout must have either 'intervals' or 'sequence' array"

\* the workout has neither 'intervals' nor 'sequence'
BothAbsent == "intervals" \notin DOMAIN Val(arg) /\ "sequence" \notin DOMAIN Val(arg)

\* a workout with id, name and, of sequence / intervals / blocks, only key
OnlyKey(key) ==
    JMap([k \in {"id", "name", key} |->
            IF k = key THEN Val(arg)[key] ELSE JStr(<<"a">>)])

\* the errors that key gives in a workout that has no other list key
AloneErrors(key) ==
    IF key \notin DOMAIN Val(arg) THEN <<>>
    ELSE LET errs == validate_workout(OnlyKey(key)).val.errors
         IN  IF key = "blocks" THEN Tail(errs) ELSE errs

TotalDurationErrors ==
    Opt("totalDuration" \in DOMAIN Val(arg)
          /\ ~(Kind(Val(arg)["totalDuration"]) = "int" /\ Val(Val(arg)["totalDuration"]) >= 1),
        "totalDuration must be a positive integer")

\* C13: in standard mode, when the call returns, the error 'Workout must have
\* either ...' is there exactly once if both keys are absent and not at all
\* otherwise; the checks of blocks, totalDuration and theme still follow it; and
\* the errors of sequence, intervals and blocks are those each key gives alone,
\* whatever combination of the three is present.
C13_MissingBothDoesNotStop ==
    (pc = "workout_done" /\ ~MelodicMode /\ ~ret.exc) =>
        /\ Count(ret.val.errors, MustHaveIntervalsOrSequence)
              = (IF BothAbsent THEN 1 ELSE 0)
        /\ ret.val.errors =
              LeadingErrors(arg)
              \o AloneErrors("sequence")
              \o AloneErrors("intervals")
              \o AloneErrors("blocks")
              \o TotalDurationErrors
              \o theme_errors(arg)

\* neither key, and the errors of a bad block, of totalDuration and of theme
\* all follow the one 'must have either' error
C13_Witness ==
    /\ pc = "workout_done"
    /\ ~ret.exc
    /\ BothAbsent
    /\ "id" \in DOMAIN Val(arg)
    /\ "blocks" \in DOMAIN Val(arg)
    /\ Val(arg)["blocks"] = JList(<<BadBlock>>)
    /\ {"totalDuration", "theme"} \subseteq DOMAIN Val(arg)
    /\ Head(ret.val.errors) = MustHaveIntervalsOrSequence
    /\ Len(ret.val.errors) = 1 + Len(validate_block(BadBlock, "blocks[0]").val) + 2

(***************************************************************************)
(* Specification: main() over a list of files.  A file is missing, is not  *)
(* JSON, or holds a decoded JSON tree.                                     *)
(***************************************************************************)
\* most files given on one command line
MaxFiles == 2

MissingFile == <<"missing", JNull>>
NotJsonFile == <<"garbage", JNull>>
JsonFile(tree) == <<"json", tree>>

GoodWorkout ==
    JMap([id |-> JStr(<<"a">>), name |-> JStr(<<"b">>), sequence |-> JList(<<GoodItem>>)])
\* valid JSON with one validation error
BadWorkout == JMap([id |-> JStr(<<"a">>), name |-> JStr(<<"b">>)])
\* validate_workout raises on the number in sequence
RaisingWorkout ==
    JMap([id |-> JStr(<<"a">>), name |-> JStr(<<"b">>), sequence |-> JList(<<JInt(5)>>)])

Files ==
    {MissingFile, NotJsonFile, JsonFile(JInt(5)), JsonFile(GoodWorkout),
     JsonFile(BadWorkout), JsonFile(RaisingWorkout)}

\* open raises FileNotFoundError, json.load raises JSONDecodeError, and
\* validate_workout raises on a tree that is not a dict or has a non-dict
\* child: each except clause returns False
validate_workout_file(json_file) ==
    IF json_file[1] # "json" THEN FALSE
    ELSE IF Kind(json_file[2]) # "map" THEN FALSE
    ELSE IF validate_workout(json_file[2]).exc THEN FALSE
    ELSE validate_workout(json_file[2]).val.isValid

\* the flag that is the outcome of the last file only
all_valid_after_last_only(flag, ok) == ok

\* "if not validate_workout_file(json_file): all_valid = False"
all_valid_after(flag, ok) == IF ~ok THEN FALSE ELSE flag

InitMain ==
    /\ pc = "main"
    /\ arg = JNull
    /\ path = ""
    /\ ret = NoRet
    /\ idx = 0
    /\ json_files \in UNION {[1..n -> Files] : n \in 1..MaxFiles}
    /\ next_file = 1
    /\ all_valid = TRUE
    /\ validating = <<>>
    /\ exit_code = <<>>

\* one turn of "for json_file in args.json_files"
ValidateNextFile ==
    /\ pc = "main"
    /\ next_file <= Len(json_files)
    /\ validating' = Append(validating, next_file)
    /\ all_valid' = all_valid_after(all_valid, validate_workout_file(json_files[next_file]))
    /\ next_file' = next_file + 1
    /\ UNCHANGED <<pc, arg, path, ret, idx, json_files, exit_code>>

\* the loop is over: sys.exit(0) or sys.exit(1)
Exit ==
    /\ pc = "main"
    /\ next_file > Len(json_files)
    /\ exit_code' = IF all_valid THEN <<0>> ELSE <<1>>
    /\ pc' = "exited"
    /\ UNCHANGED <<arg, path, ret, idx, json_files, next_file, all_valid, validating>>

NextMain == ValidateNextFile \/ Exit

\* main runs in one thread and nothing in the loop blocks
SpecMain == InitMain /\ [][NextMain]_vars /\ WF_vars(NextMain)

(***************************************************************************)
(* Command-line claims, under SpecMain.                                    *)
(***************************************************************************)
\* the file was found, parsed as JSON and passed validation
FileFine(json_file) ==
    /\ json_file[1] = "json"
    /\ Kind(json_file[2]) = "map"
    /\ ~validate_workout(json_file[2]).exc
    /\ validate_workout(json_file[2]).val.errors = <<>>

\* the run is over with every file announced once, in the order given, and the
\* exit code is 0 exactly when every file is fine, 1 otherwise
ExitedRight ==
    /\ pc = "exited"
    /\ validating = [k \in 1..Len(json_files) |-> k]
    /\ exit_code = (IF \A k \in 1..Len(json_files) : FileFine(json_files[k])
                    THEN <<0>> ELSE <<1>>)

\* C14: the command-line run takes every file in the order given, whatever
\* happened to the earlier ones, and then exits, with code 0 if and only if
\* every file was found, parsed as JSON and passed validation, with code 1
\* otherwise.
C14_EveryFileThenExitCode ==
    /\ [](pc = "exited" => ExitedRight)
    /\ [](pc = "main" =>
            /\ exit_code = <<>>
            /\ validating = [k \in 1..(next_file - 1) |-> k])
    /\ <>(pc = "exited")

\* a failing first file, a fine second one: both were taken and the code is 1
C14_Witness ==
    /\ pc = "exited"
    /\ Len(json_files) = 2
    /\ json_files[1] = MissingFile
    /\ FileFine(json_files[2])
    /\ validating = <<1, 2>>
    /\ exit_code = <<1>>

(***************************************************************************)
(* Specification: validate_sequence_item applied to one value at one       *)
(* index.                                                                  *)
(***************************************************************************)
ItemMaps ==
    {MkMap(f) : f \in
        [type : {Absent, JStr(Chars.interval), JStr(Chars.block),
                 JStr(<<"r", "e", "s", "t">>), JStr(<<"B", "l", "o", "c", "k">>), JInt(5)},
         id : {Absent, JStr(<<"i", "1">>)},
         name : {Absent, JStr(<<"W">>)},
         duration : {Absent, JInt(300), JInt(0)},
         powerZone : {Absent, JInt(3), JInt(8)},
         repetitions : {Absent, JInt(2), JInt(0)},
         intervals : ListOptions({GoodInterval, BadInterval})]}

ItemInputs == ItemMaps \cup NonMaps

InitItem ==
    /\ pc = "item"
    /\ arg \in ItemInputs
    /\ path = ""
    /\ ret = NoRet
    /\ idx \in 0..MaxItems
    /\ CliIdle

CallValidateSequenceItem ==
    /\ pc = "item"
    /\ ret' = validate_sequence_item(arg, idx)
    /\ pc' = "item_done"
    /\ UNCHANGED <<arg, path, idx, cli>>

NextItem == CallValidateSequenceItem

SpecItem == InitItem /\ [][NextItem]_vars

(***************************************************************************)
(* Sequence item claims, under SpecItem.                                   *)
(***************************************************************************)
\* the path of the item
ItemPath == "sequence[" \o ToString(idx) \o "]"

\* the call was made on a dict item
ItemCalled == pc = "item_done" /\ Kind(arg) = "map"

\* C15: a dict item without 'type' gives exactly the one missing-type error,
\* nothing else of it being checked; a type other than 'interval' and 'block'
\* gives exactly one error naming that value; otherwise the result is that of
\* validate_interval, respectively validate_block, on the item itself at
\* 'sequence[i]'.
C15_SequenceItemDispatch ==
    ItemCalled =>
        IF "type" \notin DOMAIN Val(arg)
        THEN ret = Returned(<<ItemPath \o ": Missing 'type' field">>)
        ELSE IF Val(arg)["type"] = JStr(<<"i", "n", "t", "e", "r", "v", "a", "l">>)
        THEN ret = validate_interval(arg, ItemPath)
        ELSE IF Val(arg)["type"] = JStr(<<"b", "l", "o", "c", "k">>)
        THEN ret = validate_block(arg, ItemPath)
        ELSE ret = Returned(<<ItemPath \o ": type must be 'interval' or 'block', got '"
                                \o PyStr(Val(arg)["type"]) \o "'">>)

\* an item without 'type' and with nothing else either, at index 1: a single
\* error, where validate_interval on it would give four
C15_Witness ==
    /\ ItemCalled
    /\ idx = 1
    /\ arg = JMap(NoKeys)
    /\ ret = Returned(<<"sequence[1]: Missing 'type' field">>)
    /\ Len(validate_interval(arg, ItemPath).val) = 4

(***************************************************************************)
(* Order of validate_interval's errors, under SpecInterval.                *)
(***************************************************************************)
\* the call returned for a dict interval
IntervalReturned == pc = "interval_done" /\ Kind(arg) = "map" /\ ~ret.exc

DurationError == path \o ": duration must be a positive integer"
CadenceError == path \o ": cadence must be an integer between 40 and 150"
NotesError == path \o ": notes must be a string"

\* the errors the alternating check gives for the interval
AlternatingErrors ==
    IF "alternating" \in DOMAIN Val(arg)
    THEN {interval_alternating_errors(Val(arg)["alternating"], path)[k] :
             k \in 1..Len(interval_alternating_errors(Val(arg)["alternating"], path))}
    ELSE {}

\* the check an error of the interval comes from
CheckOf(e) ==
    IF e \in {path \o ": Missing required field '" \o f \o "'" : f \in {"id", "name", "duration"}}
    THEN "missing"
    ELSE IF e \in AlternatingErrors THEN "alternating"
    ELSE IF e = DurationError THEN "duration"
    ELSE IF e = CadenceError THEN "cadence"
    ELSE IF e = NotesError THEN "notes"
    ELSE "zone"

\* where a check stands in an order of checks
PlaceIn(order, check) == CHOOSE k \in 1..Len(order) : order[k] = check

\* no error of errs comes before an error of an earlier check
InOrder(errs, order) ==
    \A i, j \in 1..Len(errs) :
        i < j => PlaceIn(order, CheckOf(errs[i])) <= PlaceIn(order, CheckOf(errs[j]))

\* C16 as stated: the errors come in the order missing fields, powerZone /
\* powerZoneRange, alternating, duration value, cadence, notes, so an
\* alternating error precedes the duration-value and cadence errors.
C16_AlternatingBeforeDurationAndCadence ==
    IntervalReturned =>
        InOrder(ret.val, <<"missing", "zone", "alternating", "duration", "cadence", "notes">>)

\* C16 amended: the errors come in the order missing fields, powerZone /
\* powerZoneRange, duration value, cadence, alternating, notes, so an
\* alternating error follows the duration-value and cadence errors.
C16_AlternatingAfterDurationAndCadence ==
    IntervalReturned =>
        InOrder(ret.val, <<"missing", "zone", "duration", "cadence", "alternating", "notes">>)

\* an interval whose duration, cadence, alternating and notes are all wrong:
\* the alternating error is next to last, after the other two
C16_Witness ==
    /\ IntervalReturned
    /\ Len(ret.val) >= 4
    /\ ret.val[Len(ret.val)] = NotesError
    /\ ret.val[Len(ret.val) - 1] \in AlternatingErrors
    /\ ret.val[Len(ret.val) - 2] = CadenceError
    /\ ret.val[Len(ret.val) - 3] = DurationError

(***************************************************************************)
(* Specification: the powerZoneRange check, reached through                *)
(* validate_interval and through validate_work_block_definition.           *)
(***************************************************************************)
RangeEnds ==
    {Absent, JInt(2), JInt(5), JInt(8), JStr(<<"Z", "9">>), JStr(<<"z", "3">>), JNull}

\* range dicts, some with a key the validators do not know
RangeMaps ==
    {MkMap(f) : f \in [start : RangeEnds, end : RangeEnds, step : {Absent, JInt(99)}]}

\* an interval (at "interval") or a definition (at "definition") with nothing
\* wrong outside its powerZoneRange
RangeOwner(at, pzr) ==
    IF at = "interval"
    THEN JMap([id |-> JStr(<<"i", "1">>), name |-> JStr(<<"W">>), duration |-> JInt(300),
               powerZoneRange |-> pzr])
    ELSE JMap([name |-> JStr(<<"S">>), powerZoneRange |-> pzr])

InitRange ==
    /\ pc \in {"interval", "definition"}
    /\ arg \in {RangeOwner(pc, pzr) : pzr \in RangeMaps}
    /\ path \in {"sequence[2]", "workBlockDefinitions[0]"}
    /\ ret = NoRet
    /\ idx = 0
    /\ CliIdle

NextRange == CallValidateInterval \/ CallValidateWorkBlockDefinition

SpecRange == InitRange /\ [][NextRange]_vars

(***************************************************************************)
(* powerZoneRange claims, under SpecRange.                                 *)
(***************************************************************************)
\* either validator returned for an owner of a powerZoneRange dict
RangeChecked ==
    /\ pc \in {"interval_done", "definition_done"}
    /\ ~ret.exc
    /\ Kind(Val(arg)["powerZoneRange"]) = "map"

\* what key of the range gives: its 'missing' error at path missingAt, nothing
\* for a valid zone, the zone's message at path <valueAt>.<key> otherwise
RangeKeyErrors(key, missingAt, valueAt) ==
    IF key \notin DOMAIN Val(Val(arg)["powerZoneRange"])
    THEN <<missingAt \o ": powerZoneRange missing '" \o key \o "'">>
    ELSE IF validate_power_zone(Val(Val(arg)["powerZoneRange"])[key]).valid
    THEN <<>>
    ELSE <<valueAt \o "." \o key \o ": "
             \o validate_power_zone(Val(Val(arg)["powerZoneRange"])[key]).msg>>

\* C17 as stated: with <path> either the owner's path or the range's, the
\* errors are, for start and then end, the 'missing' error at <path> or the
\* zone's error at <path>.start / <path>.end, and nothing else.
C17_RangeErrorsAtPathStartEnd ==
    RangeChecked =>
        \E q \in {path, path \o ".powerZoneRange"} :
            ret.val = RangeKeyErrors("start", q, q) \o RangeKeyErrors("end", q, q)

\* C17 amended: the errors are, for start and then end, the 'missing' error at
\* the owner's path or the zone's error at <path>.powerZoneRange.start /
\* <path>.powerZoneRange.end, and nothing else; no error for start above end.
C17_RangeErrorsKeyByKey ==
    RangeChecked =>
        ret.val = RangeKeyErrors("start", path, path \o ".powerZoneRange")
                  \o RangeKeyErrors("end", path, path \o ".powerZoneRange")

\* start zone 5 above end zone 2, through validate_work_block_definition: no error
C17_Witness ==
    /\ pc = "definition_done"
    /\ Val(arg)["powerZoneRange"] = JMap([start |-> JInt(5), end |-> JInt(2)])
    /\ ret.val = <<>>

====
